---- MODULE Spec2Model ----
(***************************************************************************)
(* State-machine model of demo_scripts/amp_demo.py: the script __main__    *)
(* and the functions it is built from (make_tdb, gen_pwl_data, gen_layout, *)
(* gen_schematics, simulate, load_sim_data, plot_data).                    *)
(*                                                                         *)
(* A Python process is a stack of frames; every statement that calls into  *)
(* the external framework (bag, scipy, matplotlib) is one step that issues *)
(* the call, and the call's return (or failure) is a second step.  The     *)
(* session either runs the script once or calls one of the functions       *)
(* directly, up to MaxCalls times with the same arguments.                 *)
(*                                                                         *)
(* Units: times are integers in picoseconds (1e-12 s), amplitudes integers *)
(* in millivolts (1e-3), so td = 100e-12 is 100 and amp = 10e-3 is 10.     *)
(* Strings that the code concatenates (cell and testbench names) are       *)
(* sequences of string pieces; paths are sequences of components, an       *)
(* absolute path starting with the component "/".                          *)
(***************************************************************************)
EXTENDS Integers, Sequences, FiniteSets, TLC

\* ------------------------------------------------------------- bounds
MaxCalls == 2
MaxSamples == 3

\* ------------------------------------------------- generic helpers
Range(s) == {s[k] : k \in DOMAIN s}

Put(f, k, v) == [x \in (DOMAIN f) \cup {k} |-> IF x = k THEN v ELSE f[x]]

RECURSIVE Pow10(_)
Pow10(n) == IF n <= 0 THEN 1 ELSE 10 * Pow10(n - 1)

RECURSIVE NumDigits(_)
NumDigits(n) == IF n < 10 THEN 1 ELSE 1 + NumDigits(n \div 10)

Abs(x) == IF x < 0 THEN -x ELSE x

\* --------------------------------------------------- os.path, as used
cwd == <<"/", "w">>

IsAbs(p) == p # <<>> /\ p[1] = "/"

Join(a, b) == IF IsAbs(b) THEN b ELSE a \o b

\* os.path.normpath on an absolute path: "." is dropped, ".." removes the
\* component before it and is dropped at the root.
RECURSIVE NormParts(_, _)
NormParts(done, rest) ==
    IF rest = <<>> THEN done
    ELSE LET c == Head(rest) IN
         IF c = "." THEN NormParts(done, Tail(rest))
         ELSE IF c = ".."
              THEN NormParts(IF Len(done) > 1 THEN SubSeq(done, 1, Len(done) - 1) ELSE done,
                             Tail(rest))
              ELSE NormParts(Append(done, c), Tail(rest))

NormPath(p) == NormParts(<<"/">>, Tail(p))

\* A plausible slip: the working directory is prepended to every path.
AbsPath_always_join(p) == NormPath(cwd \o (IF IsAbs(p) THEN Tail(p) ELSE p))

AbsPath(p) == NormPath(IF IsAbs(p) THEN p ELSE Join(cwd, p))

Dirname(p) ==
    IF Len(p) <= 1 THEN (IF IsAbs(p) THEN p ELSE <<>>)
    ELSE SubSeq(p, 1, Len(p) - 1)

Prefixes(p) == {SubSeq(p, 1, k) : k \in 1..Len(p)}

\* os.makedirs(dir_name, exist_ok=True): the error it raises, or "none".
MakedirsError(fsys, dir_name) ==
    IF dir_name = <<>> THEN "FileNotFoundError"
    ELSE IF AbsPath(dir_name) \in DOMAIN fsys.files THEN "FileExistsError"
    ELSE IF \E q \in Prefixes(AbsPath(dir_name)) : q \in DOMAIN fsys.files
         THEN "NotADirectoryError"
    ELSE "none"

Makedirs(fsys, dir_name) ==
    [fsys EXCEPT !.dirs = @ \cup Prefixes(AbsPath(dir_name))]

\* open(fname, 'w'): the error it raises, or "none".
OpenError(fsys, fname) ==
    IF AbsPath(fname) \in fsys.dirs THEN "IsADirectoryError"
    ELSE IF Dirname(AbsPath(fname)) \notin fsys.dirs THEN "FileNotFoundError"
    ELSE "none"

WriteFile(fsys, fname, content) ==
    [fsys EXCEPT !.files = Put(@, AbsPath(fname), content)]

\* ------------------------------------------- gen_pwl_data's waveform
td == 100
tpulse == 800
tr == 20
amp == 10

tvec == <<0, td, td + tr, td + tr + tpulse, td + tr + tpulse + tr>>
yvec == <<-amp, -amp, amp, amp, -amp>>

\* zip(tvec, yvec)
Zip(a, b) ==
    [k \in 1..(IF Len(a) < Len(b) THEN Len(a) ELSE Len(b)) |-> <<a[k], b[k]>>]

RECURSIVE StripZeros(_)
StripZeros(t) ==
    IF t.mant # 0 /\ t.mant % 10 = 0
    THEN StripZeros([t EXCEPT !.mant = t.mant \div 10, !.exp = t.exp + 1])
    ELSE t

\* '%.<prec>g' % x: x rounded to prec significant digits (ties to even),
\* printed without trailing zeros: a sign, the digits, a power of ten.
FmtG(prec, x) ==
    LET a  == Abs(x)
        sh == IF NumDigits(a) > prec THEN NumDigits(a) - prec ELSE 0
        q  == a \div Pow10(sh)
        r  == a % Pow10(sh)
        up == 2 * r > Pow10(sh) \/ (2 * r = Pow10(sh) /\ q % 2 = 1)
        m  == IF up THEN q + 1 ELSE q
    IN StripZeros([neg |-> x < 0, mant |-> m, exp |-> sh])

\* A plausible slip: one significant digit ('%.1g').
Fmt4g_one_digit(x) == FmtG(1, x)

Fmt4g(x) == FmtG(4, x)

\* float(text)
ParseFloat(t) == (IF t.neg THEN -1 ELSE 1) * t.mant * Pow10(t.exp)

\* The lines written by the loop of gen_pwl_data: '%.4g %.4g\n' % (t, y).
PwlLines == [k \in DOMAIN Zip(tvec, yvec) |->
                <<Fmt4g(Zip(tvec, yvec)[k][1]), Fmt4g(Zip(tvec, yvec)[k][2])>>]

\* Reading a waveform file back: one (time, amplitude) pair per line.
ReadBack(content) ==
    [k \in DOMAIN content |-> <<ParseFloat(content[k][1]), ParseFloat(content[k][2])>>]

\* --------------------------------------------------- names and files
\* '%s_%s' % (gen_cell, name)
TbGenCell(gen_cell, name) == gen_cell \o <<"_">> \o name

\* A plausible slip: the testbench name is left out of the file name.
HdfName_no_tb(gen_cell, name) == gen_cell \o <<".hdf5">>

\* os.path.join(data_dir, '%s.hdf5' % tb_gen_cell), relative to data_dir
HdfName(gen_cell, name) == TbGenCell(gen_cell, name) \o <<".hdf5">>

\* ------------------------------------------------------------ inputs
TbNames == {<<"tb", "_", "dc">>, <<"tb", "_", "ac", "_", "tran">>}
tb_dc == <<"tb", "_", "dc">>
tb_ac_tran == <<"tb", "_", "ac", "_", "tran">>

Volts == {0, 1}

Tables ==
    UNION {[vin : [1..n -> Volts], vout : [1..n -> Volts]] : n \in 1..MaxSamples}

NoTable == [vin |-> <<>>, vout |-> <<>>]

\* What the simulator may hand back for a testbench.
SimResults == {t \in Tables : Len(t.vin) = 2 /\ t.vout = <<0, 1>> /\ t.vin[2] = 0}

\* tran_fname values a specification file may hold.
TranPool == {<<"p">>, <<".", "d", "..", "e", "p">>, <<"/", "w", "d", "p">>}

\* File names gen_pwl_data may be called with directly.
FnamePool == {<<"p">>, <<"d", "p">>, <<"/", "w", "d", "p">>, <<"/", "w", "p">>}

SchParamsPool == {[cload |-> "c"]} \cup {[cload |-> "c", tran_fname |-> p] : p \in TranPool}

TbParamsPool == {<<>>, <<"vdd", "vin">>}

Orders == {<<>>} \cup {<<n>> : n \in TbNames}
          \cup {o \in {<<n, m>> : n \in TbNames, m \in TbNames} : o[1] # o[2]}

\* The parsed YAML specification, specs and specs[dsn_name] flattened, with
\* the testbenches' sch_params drawn from S and their tb_params from P.
SpecsOver(S, P) ==
    UNION {[view_name : {"schematic"}, sim_envs : {<<"tt">>},
            impl_lib : {"AAAFOO"}, sch_lib : {"demo_templates"},
            sch_cell : {"amp_sf"}, gen_cell : {<<"amp", "_", "sf">>},
            data_dir : {<<"data">>}, testbenches : {o},
            info : [Range(o) -> [tb_lib : {"bag_testbenches"}, tb_cell : {"amp_tb"},
                                 sch_params : S, tb_params : P]]] : o \in Orders}

SpecsPool == SpecsOver(SchParamsPool, TbParamsPool)

DefaultSpecs == CHOOSE s \in SpecsPool : s.testbenches = <<>>

Entry(fn, lvs, fname, table) ==
    [fn |-> fn, check_lvs |-> lvs, fname |-> fname, table |-> table]

\* run_lvs of __main__
run_lvs == TRUE

MainEntries == {Entry("main", run_lvs, <<>>, NoTable)}

GsEntries == {Entry("gen_schematics", b, <<>>, NoTable) : b \in BOOLEAN}

SimEntries == {Entry(f, FALSE, <<>>, NoTable) : f \in {"simulate", "load_sim_data"}}

LayEntries == {Entry("gen_layout", FALSE, <<>>, NoTable)}

PwlEntries == {Entry("gen_pwl_data", FALSE, p, NoTable) : p \in FnamePool}

PlotEntries == {Entry("plot_data", FALSE, <<>>, t) : t \in Tables}

VARIABLES entry, ncalls, stack, err, err_arg, errlen, inflight, log, stagelog,
          specs, specs0, snap, fs, disk, check_lvs, lvs_passed, lvs_log,
          fname, tran_fname, ti, pj, results, results_dict, res_dict,
          vin, vout, vin_arg

vars == <<entry, ncalls, stack, err, err_arg, errlen, inflight, log, stagelog,
          specs, specs0, snap, fs, disk, check_lvs, lvs_passed, lvs_log,
          fname, tran_fname, ti, pj, results, results_dict, res_dict,
          vin, vout, vin_arg>>


\* ------------------------------------------------ frames and calls
Frame(fn, pc) == [fn |-> fn, pc |-> pc]

\* A call into the external framework is synchronous: the caller does not
\* take another step until the call has returned.
Blocked == inflight # {}

Running(fn, pc) == stack # <<>> /\ Head(stack) = Frame(fn, pc) /\ ~Blocked

Goto(pc) == stack' = <<Frame(Head(stack).fn, pc)>> \o Tail(stack)

\* Calling a function of this file: its frame goes on top, the caller
\* resumes at retpc when it returns.
CallFn(fn, retpc) ==
    /\ stack' = <<Frame(fn, "start"), Frame(Head(stack).fn, retpc)>> \o Tail(stack)
    /\ stagelog' = Append(stagelog, <<fn, "start">>)

ReturnFn ==
    /\ stack' = Tail(stack)
    /\ stagelog' = Append(stagelog, <<Head(stack).fn, "end">>)

\* A plausible slip: the exception is swallowed and the caller goes on.
Unwind_swallow(s) == s

\* The file has no try/except: an exception unwinds every frame.
Unwind(s) == <<>>

Raise(e, arg) ==
    /\ err' = e
    /\ err_arg' = arg
    /\ errlen' = Len(log)
    /\ stack' = Unwind(stack)

Ev(op, tb, lib, cell, arg) ==
    [op |-> op, tb |-> tb, lib |-> lib, cell |-> cell, arg |-> arg]

Issue(e) ==
    /\ inflight' = inflight \cup {e.op}
    /\ log' = Append(log, e)

LastArg == log[Len(log)].arg

ValueOps == {"run_lvs", "load_sim_results", "save_sim_results", "load_sim_file"}

hvars == <<entry, ncalls, specs0, snap>>
evars == <<err, err_arg, errlen>>
gvars == <<check_lvs, lvs_passed, lvs_log, tran_fname>>
svars == <<results, results_dict>>
pvars == <<vin, vout, vin_arg>>

\* ---------------------------------------------------------- session
Init ==
    /\ \/ entry \in MainEntries /\ specs \in SpecsPool
       \/ entry \in GsEntries /\ specs \in SpecsOver(SchParamsPool, {<<>>})
       \/ entry \in SimEntries /\ specs \in SpecsOver({[cload |-> "c"]}, TbParamsPool)
       \/ entry \in LayEntries \cup PwlEntries \cup PlotEntries /\ specs = DefaultSpecs
    /\ specs0 = specs
    /\ snap = [specs |-> specs, fs |-> [dirs |-> {<<"/">>, cwd}, files |-> <<>>]]
    /\ ncalls = 0
    /\ stack = <<>>
    /\ err = "none" /\ err_arg = <<>> /\ errlen = 0
    /\ inflight = {}
    /\ log = <<>>
    /\ stagelog = <<>>
    /\ fs = [dirs |-> {<<"/">>, cwd}, files |-> <<>>]
    /\ disk = <<>>
    /\ check_lvs = FALSE /\ lvs_passed = FALSE /\ lvs_log = <<>>
    /\ fname = <<>> /\ tran_fname = <<>>
    /\ ti = 1 /\ pj = 1
    /\ results = NoTable /\ results_dict = <<>> /\ res_dict = <<>>
    /\ vin = <<>> /\ vout = <<>> /\ vin_arg = <<>>

CallLimit == IF entry.fn = "main" THEN 1 ELSE MaxCalls

\* The session runs the script, or calls the entry function with its
\* arguments.
Invoke ==
    /\ stack = <<>> /\ err = "none" /\ ~Blocked
    /\ ncalls < CallLimit
    /\ ncalls' = ncalls + 1
    /\ snap' = [specs |-> specs, fs |-> fs]
    /\ stack' = <<Frame(entry.fn, "start")>>
    /\ stagelog' = Append(stagelog, <<entry.fn, "start">>)
    /\ check_lvs' = entry.check_lvs
    /\ fname' = entry.fname
    /\ res_dict' = IF entry.fn = "plot_data"
                   THEN Put(Put(<<>>, tb_dc, entry.table), tb_ac_tran, NoTable)
                   ELSE res_dict
    /\ UNCHANGED <<entry, specs0, evars, inflight, log, specs, fs, disk,
                   lvs_passed, lvs_log, tran_fname, ti, pj, svars, pvars>>

\* ------------------------------------------- returns of external calls
ExtReturnOk ==
    /\ \E op \in inflight \ ValueOps : inflight' = inflight \ {op}
    /\ UNCHANGED <<hvars, stack, evars, log, stagelog, specs, fs, disk, gvars,
                   fname, ti, pj, svars, res_dict, pvars>>

ExtRaise ==
    /\ \E op \in inflight : inflight' = inflight \ {op}
    /\ Raise("ExternalError", <<>>)
    /\ UNCHANGED <<hvars, log, stagelog, specs, fs, disk, gvars,
                   fname, ti, pj, svars, res_dict, pvars>>

RunLvsReturn ==
    /\ "run_lvs" \in inflight
    /\ inflight' = inflight \ {"run_lvs"}
    /\ lvs_passed' \in BOOLEAN
    /\ lvs_log' = <<"lvs_run_dir", "lvs.log">>
    /\ UNCHANGED <<hvars, stack, evars, log, stagelog, specs, fs, disk, check_lvs,
                   tran_fname, fname, ti, pj, svars, res_dict, pvars>>

LoadSimResultsReturn ==
    /\ "load_sim_results" \in inflight
    /\ inflight' = inflight \ {"load_sim_results"}
    /\ results' \in SimResults
    /\ UNCHANGED <<hvars, stack, evars, log, stagelog, specs, fs, disk, gvars,
                   fname, ti, pj, results_dict, res_dict, pvars>>

SaveSimResultsReturn ==
    /\ "save_sim_results" \in inflight
    /\ inflight' = inflight \ {"save_sim_results"}
    /\ disk' = Put(disk, LastArg, results)
    /\ UNCHANGED <<hvars, stack, evars, log, stagelog, specs, fs, gvars,
                   fname, ti, pj, svars, res_dict, pvars>>

LoadSimFileReturn ==
    /\ "load_sim_file" \in inflight
    /\ inflight' = inflight \ {"load_sim_file"}
    /\ IF LastArg \in DOMAIN disk
       THEN /\ results' = disk[LastArg]
            /\ UNCHANGED <<stack, evars>>
       ELSE /\ Raise("ExternalError", LastArg)
            /\ UNCHANGED results
    /\ UNCHANGED <<hvars, log, stagelog, specs, fs, disk, gvars,
                   fname, ti, pj, results_dict, res_dict, pvars>>

\* ------------------------------------------------------ gen_pwl_data
PwlMakedirs ==
    /\ Running("gen_pwl_data", "start")
    /\ LET dir_name == Dirname(fname) IN
       IF MakedirsError(fs, dir_name) # "none"
       THEN /\ Raise(MakedirsError(fs, dir_name), dir_name)
            /\ UNCHANGED fs
       ELSE /\ fs' = Makedirs(fs, dir_name)
            /\ Goto("write")
            /\ UNCHANGED evars
    /\ UNCHANGED <<hvars, inflight, log, stagelog, specs, disk, gvars,
                   fname, ti, pj, svars, res_dict, pvars>>

PwlWrite ==
    /\ Running("gen_pwl_data", "write")
    /\ IF OpenError(fs, fname) # "none"
       THEN /\ Raise(OpenError(fs, fname), fname)
            /\ UNCHANGED <<fs, stagelog>>
       ELSE /\ fs' = WriteFile(fs, fname, PwlLines)
            /\ ReturnFn
            /\ UNCHANGED evars
    /\ UNCHANGED <<hvars, inflight, log, specs, disk, gvars,
                   fname, ti, pj, svars, res_dict, pvars>>

\* Everything a plain step of one function leaves alone, loop counters aside.
rest == <<hvars, evars, stagelog, specs, fs, disk, gvars, fname, svars, res_dict, pvars>>

\* A statement that is one call into the external framework.
ExtStep(fn, pc, next, e) ==
    /\ Running(fn, pc)
    /\ Goto(next)
    /\ Issue(e)
    /\ UNCHANGED rest

\* The return statement (or the end) of a function.
RetStep(fn, pc) ==
    /\ Running(fn, pc)
    /\ ReturnFn
    /\ UNCHANGED <<hvars, evars, inflight, log, specs, fs, disk, gvars, fname,
                   ti, pj, svars, res_dict, pvars>>

NoName == <<>>
NoArg == <<>>

\* ---------------------------------------------------------- make_tdb
TdbRoutingGrid ==
    /\ ExtStep("make_tdb", "start", "tdb", Ev("RoutingGrid", NoName, "", <<>>, NoArg))
    /\ UNCHANGED <<ti, pj>>

TdbTemplateDB ==
    /\ ExtStep("make_tdb", "tdb", "done",
               Ev("TemplateDB", NoName, specs.impl_lib, <<>>, NoArg))
    /\ UNCHANGED <<ti, pj>>

TdbReturn ==
    /\ RetStep("make_tdb", "done")
    /\ UNCHANGED entry

\* -------------------------------------------------------- gen_layout
LayMakeTdb ==
    /\ Running("gen_layout", "start")
    /\ CallFn("make_tdb", "import")
    /\ UNCHANGED <<hvars, evars, inflight, log, specs, fs, disk, gvars, fname,
                   ti, pj, svars, res_dict, pvars>>

LayImport ==
    /\ ExtStep("gen_layout", "import", "new_template",
               Ev("import_module", NoName, "", <<>>, NoArg))
    /\ UNCHANGED <<ti, pj>>

LayNewTemplate ==
    /\ ExtStep("gen_layout", "new_template", "batch_layout",
               Ev("new_template", NoName, "", <<>>, NoArg))
    /\ UNCHANGED <<ti, pj>>

LayBatchLayout ==
    /\ ExtStep("gen_layout", "batch_layout", "done",
               Ev("batch_layout", NoName, "", specs.gen_cell, NoArg))
    /\ UNCHANGED <<ti, pj>>

LayReturn ==
    /\ RetStep("gen_layout", "done")
    /\ UNCHANGED entry

\* ---------------------------------------------------- gen_schematics
CurTb == specs.testbenches[ti]
CurInfo == specs.info[CurTb]
HasTran(info) == "tran_fname" \in DOMAIN info.sch_params

\* A plausible slip: the LVS verdict is not looked at.
LvsFailed_ignored(passed) == FALSE

LvsFailed(passed) == ~passed

\* A plausible slip: the specification keeps the path as it was given.
TranValue_keep(abs_path, old) == old

\* The value line 100 stores back into tb_sch_params.
TranValue(abs_path, old) == abs_path

GsCreate ==
    /\ ExtStep("gen_schematics", "start", "design",
               Ev("create_design_module", NoName, specs.sch_lib, <<specs.sch_cell>>, NoArg))
    /\ UNCHANGED <<ti, pj>>

GsDesign ==
    /\ ExtStep("gen_schematics", "design", "implement",
               Ev("design", NoName, "", <<>>, NoArg))
    /\ UNCHANGED <<ti, pj>>

GsImplement ==
    /\ ExtStep("gen_schematics", "implement", "check_lvs",
               Ev("implement_design", NoName, specs.impl_lib, specs.gen_cell, NoArg))
    /\ UNCHANGED <<ti, pj>>

GsCheckLvs ==
    /\ Running("gen_schematics", "check_lvs")
    /\ IF check_lvs
       THEN /\ Issue(Ev("run_lvs", NoName, specs.impl_lib, specs.gen_cell, NoArg))
            /\ Goto("lvs_result")
       ELSE /\ Goto("loop")
            /\ UNCHANGED <<inflight, log>>
    /\ ti' = 1
    /\ UNCHANGED <<rest, pj>>

GsLvsResult ==
    /\ Running("gen_schematics", "lvs_result")
    /\ IF LvsFailed(lvs_passed)
       THEN Raise("ValueError", lvs_log)
       ELSE Goto("loop") /\ UNCHANGED evars
    /\ UNCHANGED <<hvars, inflight, log, stagelog, specs, fs, disk, gvars, fname,
                   ti, pj, svars, res_dict, pvars>>

GsLoop ==
    /\ Running("gen_schematics", "loop")
    /\ IF ti > Len(specs.testbenches)
       THEN /\ Goto("done")
            /\ UNCHANGED <<stagelog, tran_fname, fname>>
       ELSE IF HasTran(CurInfo)
       THEN /\ tran_fname' = AbsPath(CurInfo.sch_params.tran_fname)
            /\ fname' = tran_fname'
            /\ CallFn("gen_pwl_data", "set_tran")
       ELSE /\ Goto("tb_create")
            /\ UNCHANGED <<stagelog, tran_fname, fname>>
    /\ UNCHANGED <<hvars, evars, inflight, log, specs, fs, disk, check_lvs,
                   lvs_passed, lvs_log, ti, pj, svars, res_dict, pvars>>

GsSetTran ==
    /\ Running("gen_schematics", "set_tran")
    /\ specs' = [specs EXCEPT !.info[CurTb].sch_params.tran_fname =
                                  TranValue(tran_fname, @)]
    /\ Goto("tb_create")
    /\ UNCHANGED <<hvars, evars, inflight, log, stagelog, fs, disk, gvars, fname,
                   ti, pj, svars, res_dict, pvars>>

GsTbCreate ==
    /\ ExtStep("gen_schematics", "tb_create", "tb_design",
               Ev("create_design_module", CurTb, CurInfo.tb_lib, <<CurInfo.tb_cell>>, NoArg))
    /\ UNCHANGED <<ti, pj>>

GsTbDesign ==
    /\ ExtStep("gen_schematics", "tb_design", "tb_implement",
               Ev("design", CurTb, specs.impl_lib, specs.gen_cell,
                  IF HasTran(CurInfo) THEN CurInfo.sch_params.tran_fname ELSE NoArg))
    /\ UNCHANGED <<ti, pj>>

GsTbImplement ==
    /\ ExtStep("gen_schematics", "tb_implement", "loop",
               Ev("implement_design", CurTb, specs.impl_lib,
                  TbGenCell(specs.gen_cell, CurTb), NoArg))
    /\ ti' = ti + 1
    /\ UNCHANGED pj

GsReturn ==
    /\ RetStep("gen_schematics", "done")
    /\ UNCHANGED entry

\* ---------------------------------------------------------- simulate
\* A plausible slip: the simulation is started before update_testbench.
SimNextPc_run_first(pc) ==
    CASE pc = "configure" -> "params"
      [] pc = "params"    -> "view"
      [] pc = "view"      -> "envs"
      [] pc = "envs"      -> "run"
      [] pc = "run"       -> "update"
      [] pc = "update"    -> "load"
      [] pc = "load"      -> "save"
      [] pc = "save"      -> "record"
      [] pc = "record"    -> "loop"

\* The statement order of the loop body, lines 127-139.
SimNextPc(pc) ==
    CASE pc = "configure" -> "params"
      [] pc = "params"    -> "view"
      [] pc = "view"      -> "envs"
      [] pc = "envs"      -> "update"
      [] pc = "update"    -> "run"
      [] pc = "run"       -> "load"
      [] pc = "load"      -> "save"
      [] pc = "save"      -> "record"
      [] pc = "record"    -> "loop"

SimStart ==
    /\ Running("simulate", "start")
    /\ results_dict' = <<>>
    /\ ti' = 1
    /\ Goto("loop")
    /\ UNCHANGED <<hvars, evars, inflight, log, stagelog, specs, fs, disk, gvars,
                   fname, pj, results, res_dict, pvars>>

SimLoop ==
    /\ Running("simulate", "loop")
    /\ Goto(IF ti > Len(specs.testbenches) THEN "done" ELSE "configure")
    /\ UNCHANGED <<rest, inflight, log, ti, pj>>

SimConfigure ==
    /\ ExtStep("simulate", "configure", SimNextPc("configure"),
               Ev("configure_testbench", CurTb, specs.impl_lib,
                  TbGenCell(specs.gen_cell, CurTb), NoArg))
    /\ pj' = 1
    /\ UNCHANGED ti

SimSetParameter ==
    /\ Running("simulate", "params")
    /\ IF pj <= Len(CurInfo.tb_params)
       THEN /\ Issue(Ev("set_parameter", CurTb, "", <<>>, <<CurInfo.tb_params[pj]>>))
            /\ pj' = pj + 1
            /\ UNCHANGED stack
       ELSE /\ Goto(SimNextPc("params"))
            /\ UNCHANGED <<inflight, log, pj>>
    /\ UNCHANGED <<rest, ti>>

SimSetView ==
    /\ ExtStep("simulate", "view", SimNextPc("view"),
               Ev("set_simulation_view", CurTb, specs.impl_lib, specs.gen_cell,
                  <<specs.view_name>>))
    /\ UNCHANGED <<ti, pj>>

SimSetEnvs ==
    /\ ExtStep("simulate", "envs", SimNextPc("envs"),
               Ev("set_simulation_environments", CurTb, "", <<>>, specs.sim_envs))
    /\ UNCHANGED <<ti, pj>>

SimUpdate ==
    /\ ExtStep("simulate", "update", SimNextPc("update"),
               Ev("update_testbench", CurTb, "", <<>>, NoArg))
    /\ UNCHANGED <<ti, pj>>

SimRun ==
    /\ ExtStep("simulate", "run", SimNextPc("run"),
               Ev("run_simulation", CurTb, "", <<>>, NoArg))
    /\ UNCHANGED <<ti, pj>>

SimLoadResults ==
    /\ ExtStep("simulate", "load", SimNextPc("load"),
               Ev("load_sim_results", CurTb, "", <<>>, NoArg))
    /\ UNCHANGED <<ti, pj>>

SimSave ==
    /\ ExtStep("simulate", "save", SimNextPc("save"),
               Ev("save_sim_results", CurTb, "", <<>>, HdfName(specs.gen_cell, CurTb)))
    /\ UNCHANGED <<ti, pj>>

SimRecord ==
    /\ Running("simulate", "record")
    /\ results_dict' = Put(results_dict, CurTb, results)
    /\ ti' = ti + 1
    /\ Goto(SimNextPc("record"))
    /\ UNCHANGED <<hvars, evars, inflight, log, stagelog, specs, fs, disk, gvars,
                   fname, pj, results, res_dict, pvars>>

SimReturn ==
    /\ RetStep("simulate", "done")
    /\ UNCHANGED entry

\* ----------------------------------------------------- load_sim_data
LoadStart ==
    /\ Running("load_sim_data", "start")
    /\ res_dict' = <<>>
    /\ ti' = 1
    /\ Goto("loop")
    /\ UNCHANGED <<hvars, evars, inflight, log, stagelog, specs, fs, disk, gvars,
                   fname, pj, svars, pvars>>

LoadFile ==
    /\ Running("load_sim_data", "loop")
    /\ IF ti > Len(specs.testbenches)
       THEN /\ Goto("done")
            /\ UNCHANGED <<inflight, log>>
       ELSE /\ Issue(Ev("load_sim_file", CurTb, "", <<>>, HdfName(specs.gen_cell, CurTb)))
            /\ Goto("assign")
    /\ UNCHANGED <<rest, ti, pj>>

LoadAssign ==
    /\ Running("load_sim_data", "assign")
    /\ res_dict' = Put(res_dict, CurTb, results)
    /\ ti' = ti + 1
    /\ Goto("loop")
    /\ UNCHANGED <<hvars, evars, inflight, log, stagelog, specs, fs, disk, gvars,
                   fname, pj, svars, pvars>>

LoadReturn ==
    /\ RetStep("load_sim_data", "done")
    /\ UNCHANGED entry

\* --------------------------------------------------------- plot_data
Perms(n) == {f \in [1..n -> 1..n] : \A a, b \in 1..n : a # b => f[a] # f[b]}

\* A plausible slip: the samples are left in the order they came in.
ArgSort_identity(v) == {[k \in 1..Len(v) |-> k]}

\* np.argsort(v) with the default kind ('quicksort', which numpy documents as
\* not stable): some index array that sorts v; the order among equal values
\* is not determined.
ArgSort(v) ==
    {f \in Perms(Len(v)) : \A a, b \in 1..Len(v) : a < b => v[f[a]] <= v[f[b]]}

\* v[idx] for an index array idx
Take(v, idx) == [k \in DOMAIN idx |-> v[idx[k]]]

PlotStart ==
    /\ Running("plot_data", "start")
    /\ IF tb_dc \notin DOMAIN res_dict
       THEN /\ Raise("KeyError", tb_dc)
            /\ UNCHANGED <<vin, vout>>
       ELSE /\ vin' = res_dict[tb_dc].vin
            /\ vout' = res_dict[tb_dc].vout
            /\ Goto("argsort")
            /\ UNCHANGED evars
    /\ UNCHANGED <<hvars, inflight, log, stagelog, specs, fs, disk, gvars, fname,
                   ti, pj, svars, res_dict, vin_arg>>

PlotArgsort ==
    /\ Running("plot_data", "argsort")
    /\ vin_arg' \in ArgSort(vin)
    /\ Goto("take")
    /\ UNCHANGED <<hvars, evars, inflight, log, stagelog, specs, fs, disk, gvars,
                   fname, ti, pj, svars, res_dict, vin, vout>>

PlotTake ==
    /\ Running("plot_data", "take")
    /\ vin' = Take(vin, vin_arg)
    /\ vout' = Take(vout, vin_arg)
    /\ Goto("spline")
    /\ UNCHANGED <<hvars, evars, inflight, log, stagelog, specs, fs, disk, gvars,
                   fname, ti, pj, svars, res_dict, vin_arg>>

PlotSpline ==
    /\ ExtStep("plot_data", "spline", "derivative",
               Ev("InterpolatedUnivariateSpline", tb_dc, "", <<>>, NoArg))
    /\ UNCHANGED <<ti, pj>>

PlotDerivative ==
    /\ ExtStep("plot_data", "derivative", "fig_dc",
               Ev("derivative", tb_dc, "", <<>>, NoArg))
    /\ UNCHANGED <<ti, pj>>

PlotFigDc ==
    /\ ExtStep("plot_data", "fig_dc", "ac_tran", Ev("plot_dc", tb_dc, "", <<>>, NoArg))
    /\ UNCHANGED <<ti, pj>>

PlotAcTran ==
    /\ Running("plot_data", "ac_tran")
    /\ IF tb_ac_tran \notin DOMAIN res_dict
       THEN Raise("KeyError", tb_ac_tran)
       ELSE Goto("fig_ac") /\ UNCHANGED evars
    /\ UNCHANGED <<hvars, inflight, log, stagelog, specs, fs, disk, gvars, fname,
                   ti, pj, svars, res_dict, pvars>>

PlotFigAc ==
    /\ ExtStep("plot_data", "fig_ac", "fig_tran", Ev("plot_ac", tb_ac_tran, "", <<>>, NoArg))
    /\ UNCHANGED <<ti, pj>>

PlotFigTran ==
    /\ ExtStep("plot_data", "fig_tran", "show", Ev("plot_tran", tb_ac_tran, "", <<>>, NoArg))
    /\ UNCHANGED <<ti, pj>>

PlotShow ==
    /\ ExtStep("plot_data", "show", "done", Ev("show", NoName, "", <<>>, NoArg))
    /\ UNCHANGED <<ti, pj>>

PlotReturn ==
    /\ RetStep("plot_data", "done")
    /\ UNCHANGED entry

\* ---------------------------------------------------------- __main__
\* A plausible slip: the results are loaded before the simulations ran.
MainNextPc_load_first(pc) ==
    CASE pc = "start"          -> "top_specs"
      [] pc = "top_specs"      -> "bprj"
      [] pc = "bprj"           -> "gen_layout"
      [] pc = "gen_layout"     -> "gen_schematics"
      [] pc = "gen_schematics" -> "load_sim_data"
      [] pc = "load_sim_data"  -> "simulate"
      [] pc = "simulate"       -> "plot_data"
      [] pc = "plot_data"      -> "done"

\* The statement order of the script, lines 213-224.
MainNextPc(pc) ==
    CASE pc = "start"          -> "top_specs"
      [] pc = "top_specs"      -> "bprj"
      [] pc = "bprj"           -> "gen_layout"
      [] pc = "gen_layout"     -> "gen_schematics"
      [] pc = "gen_schematics" -> "simulate"
      [] pc = "simulate"       -> "load_sim_data"
      [] pc = "load_sim_data"  -> "plot_data"
      [] pc = "plot_data"      -> "done"

mainrest == <<hvars, evars, inflight, log, specs, fs, disk, lvs_passed, lvs_log,
              tran_fname, fname, ti, pj, svars, res_dict, pvars>>

MainReadYaml ==
    /\ Running("main", "start")
    /\ Issue(Ev("read_yaml", NoName, "", <<>>, <<"demo_specs", "demo.yaml">>))
    /\ stagelog' = Append(stagelog, <<"read_yaml", "start">>)
    /\ Goto(MainNextPc("start"))
    /\ UNCHANGED <<hvars, evars, specs, fs, disk, gvars, fname, ti, pj, svars,
                   res_dict, pvars>>

MainTopSpecs ==
    /\ Running("main", "top_specs")
    /\ stagelog' = Append(stagelog, <<"read_yaml", "end">>)
    /\ Goto(MainNextPc("top_specs"))
    /\ UNCHANGED <<mainrest, check_lvs>>

MainBagProject ==
    /\ ExtStep("main", "bprj", MainNextPc("bprj"), Ev("BagProject", NoName, "", <<>>, NoArg))
    /\ UNCHANGED <<ti, pj>>

MainGenLayout ==
    /\ Running("main", "gen_layout")
    /\ CallFn("gen_layout", MainNextPc("gen_layout"))
    /\ UNCHANGED <<mainrest, check_lvs>>

MainGenSchematics ==
    /\ Running("main", "gen_schematics")
    /\ CallFn("gen_schematics", MainNextPc("gen_schematics"))
    /\ check_lvs' = run_lvs
    /\ UNCHANGED mainrest

MainSimulate ==
    /\ Running("main", "simulate")
    /\ CallFn("simulate", MainNextPc("simulate"))
    /\ UNCHANGED <<mainrest, check_lvs>>

MainLoadSimData ==
    /\ Running("main", "load_sim_data")
    /\ CallFn("load_sim_data", MainNextPc("load_sim_data"))
    /\ UNCHANGED <<mainrest, check_lvs>>

MainPlotData ==
    /\ Running("main", "plot_data")
    /\ CallFn("plot_data", MainNextPc("plot_data"))
    /\ UNCHANGED <<mainrest, check_lvs>>

MainExit ==
    /\ RetStep("main", "done")
    /\ UNCHANGED entry

Next ==
    \/ Invoke
    \/ ExtReturnOk
    \/ ExtRaise
    \/ RunLvsReturn
    \/ LoadSimResultsReturn
    \/ SaveSimResultsReturn
    \/ LoadSimFileReturn
    \/ PwlMakedirs
    \/ PwlWrite
    \/ TdbRoutingGrid
    \/ TdbTemplateDB
    \/ TdbReturn
    \/ LayMakeTdb
    \/ LayImport
    \/ LayNewTemplate
    \/ LayBatchLayout
    \/ LayReturn
    \/ GsCreate
    \/ GsDesign
    \/ GsImplement
    \/ GsCheckLvs
    \/ GsLvsResult
    \/ GsLoop
    \/ GsSetTran
    \/ GsTbCreate
    \/ GsTbDesign
    \/ GsTbImplement
    \/ GsReturn
    \/ SimStart
    \/ SimLoop
    \/ SimConfigure
    \/ SimSetParameter
    \/ SimSetView
    \/ SimSetEnvs
    \/ SimUpdate
    \/ SimRun
    \/ SimLoadResults
    \/ SimSave
    \/ SimRecord
    \/ SimReturn
    \/ LoadStart
    \/ LoadFile
    \/ LoadAssign
    \/ LoadReturn
    \/ PlotStart
    \/ PlotArgsort
    \/ PlotTake
    \/ PlotSpline
    \/ PlotDerivative
    \/ PlotFigDc
    \/ PlotAcTran
    \/ PlotFigAc
    \/ PlotFigTran
    \/ PlotShow
    \/ PlotReturn
    \/ MainReadYaml
    \/ MainTopSpecs
    \/ MainBagProject
    \/ MainGenLayout
    \/ MainGenSchematics
    \/ MainSimulate
    \/ MainLoadSimData
    \/ MainPlotData
    \/ MainExit

Spec == Init /\ [][Next]_vars


\* ============================================================ claims
IsPrefix(s, t) == Len(s) <= Len(t) /\ s = SubSeq(t, 1, Len(s))

RECURSIVE Concat(_)
Concat(ss) == IF ss = <<>> THEN <<>> ELSE Head(ss) \o Concat(Tail(ss))

RECURSIVE Repeat(_, _)
Repeat(s, n) == IF n <= 0 THEN <<>> ELSE s \o Repeat(s, n - 1)

NoDup(s) == \A a, b \in DOMAIN s : a # b => s[a] # s[b]

Last(s) == s[Len(s)]

OnTop(fn) == stack # <<>> /\ Head(stack).fn = fn

Ended(fn) == <<fn, "end">> \in Range(stagelog)

\* The testbench names of the specification, in dictionary order.
Tbs == specs0.testbenches

\* ---------------------------------------------------------------- C1
LvsReportedFailure == lvs_log # <<>> /\ ~lvs_passed

C1_Halted ==
    /\ LvsReportedFailure =>
          /\ log # <<>> /\ Last(log).op = "run_lvs"
          /\ inflight = {}
          /\ Last(stagelog) = <<"gen_schematics", "start">>
          /\ \/ stack # <<>> /\ Head(stack) = Frame("gen_schematics", "lvs_result")
                /\ err = "none"
             \/ stack = <<>> /\ err = "ValueError" /\ err_arg = lvs_log
    /\ ~check_lvs /\ entry.fn = "gen_schematics" =>
          \A k \in DOMAIN log : log[k].op # "run_lvs"

C1_Proceeds ==
    (\/ Running("gen_schematics", "lvs_result") /\ lvs_passed
     \/ Running("gen_schematics", "check_lvs") /\ ~check_lvs)
    => /\ stack' # <<>>
       /\ Head(stack') = Frame("gen_schematics", "loop")
       /\ err' = "none"

\* C1: when run_lvs reports failure in gen_schematics, a ValueError carrying
\* the LVS log path is raised and nothing runs afterwards (no testbench
\* schematic, no stimulus file, no later stage); when LVS passes, or
\* check_lvs is false (run_lvs is then never called), the next step of
\* gen_schematics is the testbench loop.
C1_LvsFailureHalts == []C1_Halted /\ [][C1_Proceeds]_vars

C1_Witness ==
    /\ entry.fn = "main"
    /\ err = "ValueError" /\ err_arg = <<"lvs_run_dir", "lvs.log">>
    /\ \E n \in Range(Tbs) : HasTran(specs0.info[n])
    /\ fs.files = <<>>

\* ---------------------------------------------------------------- C2
Stages == {"read_yaml", "gen_layout", "gen_schematics", "simulate",
           "load_sim_data", "plot_data"}

IsStage(x) == x[1] \in Stages

StageOrder ==
    <<<<"read_yaml", "start">>, <<"read_yaml", "end">>,
      <<"gen_layout", "start">>, <<"gen_layout", "end">>,
      <<"gen_schematics", "start">>, <<"gen_schematics", "end">>,
      <<"simulate", "start">>, <<"simulate", "end">>,
      <<"load_sim_data", "start">>, <<"load_sim_data", "end">>,
      <<"plot_data", "start">>, <<"plot_data", "end">>>>

\* C2: in a run of the script the stages start and complete in the order
\* read_yaml, gen_layout, gen_schematics, simulate, load_sim_data, plot_data,
\* each starting only after the one before it has returned, none twice, and
\* at most one external call is in progress at any time.
C2_LinearPipeline ==
    /\ entry.fn = "main" => IsPrefix(SelectSeq(stagelog, IsStage), StageOrder)
    /\ Cardinality(inflight) <= 1

C2_Witness ==
    /\ entry.fn = "main" /\ stack = <<>> /\ ncalls = 1 /\ err = "none"
    /\ SelectSeq(stagelog, IsStage) = StageOrder
    /\ Len(Tbs) = 2

\* ---------------------------------------------------------------- C3
\* C3: once a call has failed the script is over: no frame is left, no call
\* is in progress and no call is issued afterwards; within one execution no
\* external call is issued twice; and every result recorded by simulate is
\* still on disk, failure or not.
C3_FailFast ==
    /\ err # "none" => stack = <<>> /\ inflight = {} /\ Len(log) = errlen
    /\ ncalls <= 1 => NoDup(log)
    /\ \A n \in DOMAIN results_dict :
          /\ specs.gen_cell \o <<"_">> \o n \o <<".hdf5">> \in DOMAIN disk
          /\ disk[specs.gen_cell \o <<"_">> \o n \o <<".hdf5">>] = results_dict[n]

C3_Witness ==
    /\ entry.fn = "main" /\ err = "ExternalError"
    /\ Len(Tbs) = 2
    /\ DOMAIN results_dict = {Tbs[1]}
    /\ Last(log).tb = Tbs[2]
    /\ Cardinality(DOMAIN disk) = 1

\* ---------------------------------------------------------------- C4
Increasing(s) == \A a, b \in DOMAIN s : a < b => s[a] < s[b]

\* C4: every waveform file holds exactly five lines which read back as the
\* pairs (0,-amp), (td,-amp), (td+tr,amp), (td+tr+tpulse,amp),
\* (td+tr+tpulse+tr,-amp), in that order, with increasing times.
C4_PwlRoundTrip ==
    \A f \in DOMAIN fs.files :
       /\ Len(fs.files[f]) = 5
       /\ ReadBack(fs.files[f]) =
             <<<<0, -amp>>, <<td, -amp>>, <<td + tr, amp>>,
               <<td + tr + tpulse, amp>>, <<td + tr + tpulse + tr, -amp>>>>
       /\ Increasing([k \in 1..5 |-> ReadBack(fs.files[f])[k][1]])

C4_Witness ==
    /\ entry.fn = "gen_pwl_data" /\ stack = <<>> /\ ncalls = 1 /\ err = "none"
    /\ DOMAIN fs.files = {<<"/", "w", "d", "p">>}

\* ---------------------------------------------------------------- C5
\* C5: gen_pwl_data succeeds for every destination file name, whether or not
\* its directory exists and also when the name has no directory component,
\* and a second call with the same name leaves the file system as the first
\* call left it.
C5_AnyNameIdempotent ==
    entry.fn = "gen_pwl_data" =>
       /\ err = "none"
       /\ stack = <<>> /\ ncalls >= 1 => AbsPath(entry.fname) \in DOMAIN fs.files
       /\ stack = <<>> /\ ncalls >= 2 => fs = snap.fs

\* ---------------------------------------------------------------- C6
FileOps == {"save_sim_results", "load_sim_file"}

\* C6: simulate saves, and load_sim_data reads, the file named
\* <gen_cell>_<name>.hdf5 for testbench <name>; different testbenches get
\* different files; after simulate there is one file per testbench, and after
\* the script's load_sim_data the loaded mapping has exactly the testbench
\* names as keys, each with the result simulate saved for it.
C6_ResultFiles ==
    /\ \A k \in DOMAIN log : log[k].op \in FileOps =>
          log[k].arg = specs.gen_cell \o <<"_">> \o log[k].tb \o <<".hdf5">>
    /\ \A k, l \in DOMAIN log :
          log[k].op \in FileOps /\ log[l].op \in FileOps /\ log[k].tb # log[l].tb
             => log[k].arg # log[l].arg
    /\ Ended("simulate") => Cardinality(DOMAIN disk) = Len(Tbs)
    /\ entry.fn = "main" /\ Ended("load_sim_data") =>
          /\ DOMAIN res_dict = Range(Tbs)
          /\ \A n \in Range(Tbs) : res_dict[n] = results_dict[n]

C6_Witness ==
    /\ entry.fn = "main" /\ Ended("load_sim_data")
    /\ Len(Tbs) = 2
    /\ res_dict[Tbs[1]] # res_dict[Tbs[2]]

\* ---------------------------------------------------------------- C7
Sorted == OnTop("plot_data") /\ Head(stack).pc \notin {"start", "argsort", "take"}

dc_results == res_dict[tb_dc]

Count(a, b, x) == Cardinality({k \in DOMAIN a : <<a[k], b[k]>> = x})

C7_Permuted ==
    /\ vin_arg \in Perms(Len(dc_results.vin))
    /\ Len(vin) = Len(dc_results.vin) /\ Len(vout) = Len(dc_results.vout)
    /\ \A k \in DOMAIN vin :
          vin[k] = dc_results.vin[vin_arg[k]] /\ vout[k] = dc_results.vout[vin_arg[k]]
    /\ \A a, b \in DOMAIN vin : a < b => vin[a] <= vin[b]
    /\ \A x \in Volts \X Volts :
          Count(vin, vout, x) = Count(dc_results.vin, dc_results.vout, x)

C7_Stable ==
    \A a, b \in DOMAIN vin_arg :
       a < b /\ dc_results.vin[vin_arg[a]] = dc_results.vin[vin_arg[b]]
          => vin_arg[a] < vin_arg[b]

\* C7 as stated: the sort is non-decreasing, applies one permutation to vin
\* and vout, keeps the multiset of pairs, and is stable.
C7_StableSort == Sorted => C7_Permuted /\ C7_Stable

\* C7 as amended: the sort is non-decreasing, applies one permutation to vin
\* and vout and keeps the multiset of (vin, vout) pairs.
C7_SortedPairs == Sorted => C7_Permuted

C7_Witness ==
    /\ Sorted
    /\ dc_results.vin = <<1, 0, 0>> /\ dc_results.vout = <<0, 1, 0>>
    /\ vin = <<0, 0, 1>>

\* ---------------------------------------------------------------- C8
SimOps == {"configure_testbench", "set_parameter", "set_simulation_view",
           "set_simulation_environments", "update_testbench", "run_simulation",
           "load_sim_results", "save_sim_results"}

IsSimOp(e) == e.op \in SimOps

\* What simulate asks of the simulator for testbench n, in order.
SimSeq(n) ==
    <<Ev("configure_testbench", n, specs0.impl_lib, specs0.gen_cell \o <<"_">> \o n, NoArg)>>
    \o [k \in 1..Len(specs0.info[n].tb_params) |->
           Ev("set_parameter", n, "", <<>>, <<specs0.info[n].tb_params[k]>>)]
    \o <<Ev("set_simulation_view", n, specs0.impl_lib, specs0.gen_cell,
            <<specs0.view_name>>),
         Ev("set_simulation_environments", n, "", <<>>, specs0.sim_envs),
         Ev("update_testbench", n, "", <<>>, NoArg),
         Ev("run_simulation", n, "", <<>>, NoArg),
         Ev("load_sim_results", n, "", <<>>, NoArg),
         Ev("save_sim_results", n, "", <<>>,
            specs0.gen_cell \o <<"_">> \o n \o <<".hdf5">>)>>

SimRunSeq == Concat([k \in 1..Len(Tbs) |-> SimSeq(Tbs[k])])

\* C8: the calls simulate makes are, testbench after testbench in dictionary
\* order, configure, every set_parameter, set_simulation_view,
\* set_simulation_environments, update_testbench, run_simulation,
\* load_sim_results, save_sim_results, each once; a result is recorded in the
\* mapping only after it was saved, and only the testbenches already
\* finished are in the mapping.
C8_SimulateOrder ==
    /\ IsPrefix(SelectSeq(log, IsSimOp), Repeat(SimRunSeq, ncalls))
    /\ OnTop("simulate") /\ Head(stack).pc # "start" =>
          DOMAIN results_dict = {Tbs[k] : k \in 1..(ti - 1)}
    /\ \A n \in DOMAIN results_dict :
          \E k \in DOMAIN log : log[k].op = "save_sim_results" /\ log[k].tb = n
                                /\ (k < Len(log) \/ inflight = {})

C8_Witness ==
    /\ entry.fn = "simulate" /\ stack = <<>> /\ ncalls = 1 /\ err = "none"
    /\ Len(Tbs) = 2
    /\ DOMAIN results_dict = Range(Tbs)
    /\ specs0.info[Tbs[1]].tb_params = <<"vdd", "vin">>

\* ---------------------------------------------------------------- C9
GsOps == {"create_design_module", "design", "implement_design", "run_lvs"}

IsGsOp(e) == e.op \in GsOps

IsAbsolute(p) == IsAbs(p) /\ "." \notin Range(p) /\ ".." \notin Range(p)

GsTbSeq(n) ==
    <<Ev("create_design_module", n, specs0.info[n].tb_lib, <<specs0.info[n].tb_cell>>, NoArg),
      Ev("design", n, specs0.impl_lib, specs0.gen_cell,
         IF HasTran(specs0.info[n])
         THEN NormPath(IF specs0.info[n].sch_params.tran_fname[1] = "/"
                       THEN specs0.info[n].sch_params.tran_fname
                       ELSE cwd \o specs0.info[n].sch_params.tran_fname)
         ELSE NoArg),
      Ev("implement_design", n, specs0.impl_lib, specs0.gen_cell \o <<"_">> \o n, NoArg)>>

GsRunSeq ==
    <<Ev("create_design_module", NoName, specs0.sch_lib, <<specs0.sch_cell>>, NoArg),
      Ev("design", NoName, "", <<>>, NoArg),
      Ev("implement_design", NoName, specs0.impl_lib, specs0.gen_cell, NoArg)>>
    \o (IF entry.check_lvs
        THEN <<Ev("run_lvs", NoName, specs0.impl_lib, specs0.gen_cell, NoArg)>>
        ELSE <<>>)
    \o Concat([k \in 1..Len(Tbs) |-> GsTbSeq(Tbs[k])])

TranFiles ==
    {AbsPath(specs0.info[n].sch_params.tran_fname) :
        n \in {m \in Range(Tbs) : HasTran(specs0.info[m])}}

\* The calls of the gen_schematics execution now running (or last run).
CurGsLog ==
    LET all == SelectSeq(log, IsGsOp)
        before == (IF ncalls > 0 THEN ncalls - 1 ELSE 0) * Len(GsRunSeq)
    IN IF Len(all) <= before THEN <<>> ELSE SubSeq(all, before + 1, Len(all))

\* C9: gen_schematics designs and implements the DUT (and has LVS passed,
\* when enabled) before the first testbench call; a testbench with tran_fname
\* is designed with the absolute path of a stimulus file that is already
\* written, one without it gets no file; every testbench is designed with
\* dut_lib = impl_lib, dut_cell = gen_cell and implemented as <gen_cell>_<name>.
C9_SchematicOrder ==
    /\ IsPrefix(SelectSeq(log, IsGsOp), Repeat(GsRunSeq, ncalls))
    /\ entry.check_lvs /\ (\E k \in DOMAIN CurGsLog : CurGsLog[k].tb # NoName)
          => lvs_passed
    /\ \A k \in DOMAIN log : log[k].op = "design" /\ log[k].arg # NoArg =>
          IsAbsolute(log[k].arg) /\ log[k].arg \in DOMAIN fs.files
    /\ entry.fn \in {"main", "gen_schematics"} => DOMAIN fs.files \subseteq TranFiles

C9_Witness ==
    /\ entry.fn = "gen_schematics" /\ entry.check_lvs
    /\ stack = <<>> /\ ncalls = 1 /\ err = "none"
    /\ Len(Tbs) = 2
    /\ ~HasTran(specs0.info[Tbs[1]])
    /\ HasTran(specs0.info[Tbs[2]])
    /\ specs0.info[Tbs[2]].sch_params.tran_fname = <<".", "d", "..", "e", "p">>
    /\ DOMAIN fs.files = {<<"/", "w", "e", "p">>}

\* --------------------------------------------------------------- C10
AbsForm(sp) ==
    [sp EXCEPT !.info =
        [n \in DOMAIN sp.info |->
            IF HasTran(sp.info[n])
            THEN [sp.info[n] EXCEPT !.sch_params.tran_fname = AbsPath(@)]
            ELSE sp.info[n]]]

EraseTran(sp) ==
    [sp EXCEPT !.info =
        [n \in DOMAIN sp.info |->
            IF HasTran(sp.info[n])
            THEN [sp.info[n] EXCEPT !.sch_params.tran_fname = <<>>]
            ELSE sp.info[n]]]

Started(fn) == <<fn, "start">> \in Range(stagelog)

\* C10: the specification changes only in its tran_fname entries; once
\* gen_schematics has returned each of them holds the absolute form of its
\* original value, and simulate and load_sim_data change nothing; a second
\* gen_schematics on the modified specification leaves it as it is.
C10_SpecFrame ==
    /\ EraseTran(specs) = EraseTran(specs0)
    /\ ~Started("gen_schematics") => specs = specs0
    /\ Ended("gen_schematics") =>
          /\ specs = AbsForm(specs0)
          /\ \A n \in Range(Tbs) : HasTran(specs.info[n]) =>
                IsAbsolute(specs.info[n].sch_params.tran_fname)
    /\ entry.fn = "gen_schematics" /\ ncalls >= 2 /\ stack = <<>> /\ err = "none"
          => specs = snap.specs

C10_Witness ==
    /\ entry.fn = "gen_schematics" /\ ncalls = 2 /\ stack = <<>> /\ err = "none"
    /\ specs # specs0
    /\ specs = snap.specs

====
